---------------------------- MODULE Spec2Model ----------------------------
(***************************************************************************)
(* MOV -> MP4 converter: convert_mov_to_mp4.py (file discovery, the        *)
(* single-file conversion job, the folder batch runner, the interactive    *)
(* menu) and convert_batch.py (the fixed-list batch driver).               *)
(*                                                                         *)
(* The program is sequential.  pc is the statement the program is at; the  *)
(* file system, the operator at the keyboard and MoviePy/ffmpeg are the    *)
(* environment: what they answer is drawn with \E where the code asks.     *)
(***************************************************************************)
EXTENDS Integers, Sequences, FiniteSets, TLC

\* ------------------------------------------------------------------ bounds
MaxStems == 2      \* distinct base names a folder may hold
MaxFiles == 2      \* directory entries a folder may hold

\* ----------------------------------------------------------- file names
\* A file name is its stem (up: written in upper case) and its extension as
\* spelt on disk.  Lower-casing a name forgets both spellings.
Stems == 1..MaxStems
Exts == {"mov", "MOV", "Mov"}
Names == [stem : Stems, up : BOOLEAN, ext : Exts]

LowerExt(e) == IF e \in {"mov", "MOV", "Mov"} THEN "mov" ELSE e
LowerName(n) == [stem |-> n.stem, up |-> FALSE, ext |-> LowerExt(n.ext)]

\* Folders the operator can point the program at.  A case-insensitive file
\* system cannot hold two entries that differ in case only.  Every entry is
\* a physical file of its own.
Directories(cs) ==
    {d \in SUBSET Names :
        /\ Cardinality(d) <= MaxFiles
        /\ (~cs => \A a, b \in d : LowerName(a) = LowerName(b) => a = b)}

\* Path.glob('*.<ext>'): the pattern is matched as spelt on a case-sensitive
\* file system and case-insensitively otherwise.
Glob(d, cs, patExt) ==
    {n \in d : IF cs THEN n.ext = patExt ELSE LowerExt(n.ext) = LowerExt(patExt)}

\* mov_files of get_unique_mov_files before deduplication: '*.mov', and
\* '*.MOV' only when '*.mov' found nothing.
GlobWithFallback(d, cs) ==
    IF Glob(d, cs, "mov") # {} THEN Glob(d, cs, "mov") ELSE Glob(d, cs, "MOV")

\* str(file.resolve()).lower(): the identity key of an entry.
PathKey(n) == LowerName(n)

\* The orders in which glob may yield a set of entries.
Orders(S) ==
    {q \in [1..Cardinality(S) -> S] : \A i, j \in 1..Cardinality(S) : q[i] = q[j] => i = j}

\* The unique_files loop: an entry is kept unless an earlier one has its key.
RECURSIVE DedupFrom(_, _)
DedupFrom(q, seen) ==
    IF q = <<>> THEN <<>>
    ELSE IF PathKey(q[1]) \in seen
         THEN DedupFrom(Tail(q), seen)
         ELSE <<q[1]>> \o DedupFrom(Tail(q), seen \cup {PathKey(q[1])})
Dedup(q) == DedupFrom(q, {})

Range(q) == {q[i] : i \in 1..Len(q)}

\* ---------------------------------------------------- single-file job data
\* Path(input_path).with_suffix('.mp4') and Path(output_folder) / f"{stem}.mp4":
\* same stem, as spelt, target extension.
WithSuffixMp4(n) == [n EXCEPT !.ext = "mp4"]
\* output_path=None: no output path was passed.
NonePath == [ext |-> "None"]

\* Method identifiers a caller can hand to convert_mov_to_mp4_lossless.
\* "standard" is the name the design documents give the CRF-18 mode,
\* "standard_high" the one the menu passes, "bogus" any other string.
Methods == {"copy_streams", "high_quality", "lossless", "standard", "standard_high", "bogus"}

\* Variant: the final else branch carries the high_quality list.
FfmpegParamsElseHighQuality(m) ==
    IF m = "lossless" THEN
        [preset |-> "slow", crf |-> "0", threads |-> "cpu_count",
         movflags |-> "+faststart", pix_fmt |-> "yuv420p", cv |-> "none", ca |-> "none"]
    ELSE IF m = "copy_streams" THEN
        [preset |-> "none", crf |-> "none", threads |-> "none",
         movflags |-> "+faststart", pix_fmt |-> "none", cv |-> "copy", ca |-> "copy"]
    ELSE
        [preset |-> "slow", crf |-> "15", threads |-> "cpu_count",
         movflags |-> "+faststart", pix_fmt |-> "yuv420p", cv |-> "none", ca |-> "none"]

\* The ffmpeg_params list of each branch of the method chain, one field per
\* option ("none": the option is not in the list).
FfmpegParams(m) ==
    IF m = "lossless" THEN
        [preset |-> "slow", crf |-> "0", threads |-> "cpu_count",
         movflags |-> "+faststart", pix_fmt |-> "yuv420p", cv |-> "none", ca |-> "none"]
    ELSE IF m = "high_quality" THEN
        [preset |-> "slow", crf |-> "15", threads |-> "cpu_count",
         movflags |-> "+faststart", pix_fmt |-> "yuv420p", cv |-> "none", ca |-> "none"]
    ELSE IF m = "copy_streams" THEN
        [preset |-> "none", crf |-> "none", threads |-> "none",
         movflags |-> "+faststart", pix_fmt |-> "none", cv |-> "copy", ca |-> "copy"]
    ELSE
        [preset |-> "slow", crf |-> "18", threads |-> "cpu_count",
         movflags |-> "+faststart", pix_fmt |-> "none", cv |-> "none", ca |-> "none"]

VideoCodec(m) == IF m = "copy_streams" THEN "None" ELSE "libx264"
AudioCodec(m) == IF m = "copy_streams" THEN "None" ELSE "aac"

\* What write_videofile is called with.
ServiceCall(m) ==
    [method |-> m, codec |-> VideoCodec(m), audio_codec |-> AudioCodec(m),
     ffmpeg_params |-> FfmpegParams(m)]
NoCall == [method |-> "none"]

\* The menus of main: the typed choice, '2' when nothing was typed, and the
\* method_map lookup with its 'high_quality' default.
MethodChoices == {"", "1", "2", "3", "4", "9"}
OrDefault(c) == IF c = "" THEN "2" ELSE c
MethodMapSingle(c) ==
    CASE OrDefault(c) = "1" -> "copy_streams"
      [] OrDefault(c) = "2" -> "high_quality"
      [] OrDefault(c) = "3" -> "lossless"
      [] OrDefault(c) = "4" -> "standard_high"
      [] OTHER -> "high_quality"
MethodMapBatch(c) ==
    CASE OrDefault(c) = "1" -> "copy_streams"
      [] OrDefault(c) = "2" -> "high_quality"
      [] OrDefault(c) = "3" -> "lossless"
      [] OTHER -> "high_quality"

\* input(...).lower() on what the operator types at a y/n prompt.
Responses == {"y", "Y", "n", ""}
LowerResp(r) == IF r = "Y" THEN "y" ELSE r

\* files_to_convert of convert_batch.main.
FilesToConvert ==
    << [stem |-> "16_9", up |-> FALSE, ext |-> "MOV"],
       [stem |-> "1_1", up |-> FALSE, ext |-> "MOV"],
       [stem |-> "9_16", up |-> FALSE, ext |-> "MOV"] >>

\* ------------------------------------------------------------------ state
VARIABLES
    caseSensitive,  \* the file system distinguishes case (Linux) or not (Windows)
    driver,         \* "interactive": main of convert_mov_to_mp4.py; "fixed_list":
                    \* main of convert_batch.py; "api": the job function imported
    pc,             \* the statement the program is at
    dir,            \* entries of the folder last listed
    glob_seq,       \* mov_files of get_unique_mov_files before deduplication
    mov_files,      \* the list the batch iterates (files_to_convert in convert_batch)
    method,         \* method of the batch
    idx,            \* i of the batch loop
    success_count,
    started,        \* history: inputs whose job the batch has called, in call order
    missing,        \* history: inputs of this batch found missing
    otherFail,      \* history: jobs of this batch that failed after validation
    job,            \* arguments of the running convert_mov_to_mp4_lossless call
    ret,            \* where that call returns to
    outBefore,      \* content at output_path when the job looked at it
    outfile,        \* content at output_path now
    trace,          \* history: what the running job has done, in order
    call,           \* history: the write_videofile call of the running job
    result          \* what the last job returned

vars == << caseSensitive, driver, pc, dir, glob_seq, mov_files, method,
           idx, success_count, started, missing, otherFail, job, ret, outBefore,
           outfile, trace, call, result >>

batchVars == << mov_files, method, idx, success_count, started >>
listVars == << dir, glob_seq >>
jobVars == << job, ret, outBefore, outfile, trace, call, result >>

NoJob == [input_path |-> "none"]

Init ==
    /\ caseSensitive \in BOOLEAN
    /\ driver \in {"interactive", "fixed_list", "api"}
    /\ pc = CASE driver = "interactive" -> "menu"
              [] driver = "fixed_list" -> "fl_check"
              [] OTHER -> "api"
    /\ dir = {}
    /\ glob_seq = <<>>
    /\ mov_files = <<>>
    /\ method = "none"
    /\ idx = 0
    /\ success_count = 0
    /\ started = <<>>
    /\ missing = 0
    /\ otherFail = 0
    /\ job = NoJob
    /\ ret = "none"
    /\ outBefore = "absent"
    /\ outfile = "absent"
    /\ trace = <<>>
    /\ call = NoCall
    /\ result = "None"

\* ------------------------------------- convert_mov_to_mp4_lossless (the job)
\* The signature is (input_path, output_path=None, method='high_quality'): a
\* call that passes remove_audio raises TypeError while the arguments are
\* bound, before the body and its try are entered.
AcceptsKeyword(kw) == ~kw

\* A call of the job: the arguments are bound and the job's history starts.
\* The TypeError of a rejected call is caught by no caller.
StartJob(inp, outp, m, kw, back) ==
    /\ job' = [input_path |-> inp, output_path |-> outp, method |-> m, remove_audio |-> kw]
    /\ ret' = back
    /\ trace' = <<>>
    /\ call' = NoCall
    /\ outfile' = "absent"
    /\ outBefore' = "absent"
    /\ IF AcceptsKeyword(kw)
       THEN /\ pc' = "job_input"
            /\ result' = "None"
       ELSE /\ pc' = "crashed"
            /\ result' = "TypeError"

\* return <v> from the job, to the caller's next statement.
Return(v) ==
    /\ result' = v
    /\ pc' = ret

\* Variant: the existence check never rejects the input.
InputCheckNeverFails(exists) == FALSE

\* if not os.path.exists(input_path): return False
InputCheckFails(exists) == ~exists

\* output_path defaults to the input path with the suffix .mp4
ResolveOutput(j) ==
    IF j.output_path.ext = "None"
    THEN [j EXCEPT !.output_path = WithSuffixMp4(j.input_path)]
    ELSE j

\* The existence check at the head of the try block.
JobCheckInput ==
    /\ pc = "job_input"
    /\ \E exists \in BOOLEAN :
         /\ trace' = Append(trace, IF exists THEN "input_exists" ELSE "input_missing")
         /\ IF InputCheckFails(exists)
            THEN /\ Return("False")
                 /\ missing' = missing + (IF exists THEN 0 ELSE 1)
                 /\ UNCHANGED job
            ELSE /\ job' = ResolveOutput(job)
                 /\ missing' = missing + (IF exists THEN 0 ELSE 1)
                 /\ pc' = "job_output"
                 /\ UNCHANGED result
    /\ UNCHANGED << caseSensitive, driver, listVars, batchVars, otherFail,
                    ret, outBefore, outfile, call >>

\* Variant: a declined overwrite is reported as a failure.
DeclineResultFalse == "False"

\* if response != 'y': print the skip message and return True.
SkipOnResponse(response) == response # "y"
DeclineResult == "True"

\* if os.path.exists(output_path): ask.  What the output path holds is the
\* environment's: it is learnt here.
JobCheckOutput ==
    /\ pc = "job_output"
    /\ \E content \in {"absent", "old"} :
         /\ outBefore' = content
         /\ outfile' = content
         /\ IF content # "absent"
            THEN \E typed \in Responses :
                   /\ trace' = trace \o << "output_exists",
                                          IF LowerResp(typed) = "y" THEN "answer_y"
                                                                    ELSE "answer_other" >>
                   /\ IF SkipOnResponse(LowerResp(typed))
                      THEN Return(DeclineResult)
                      ELSE /\ pc' = "job_open"
                           /\ UNCHANGED result
            ELSE /\ trace' = Append(trace, "output_free")
                 /\ pc' = "job_open"
                 /\ UNCHANGED result
    /\ UNCHANGED << caseSensitive, driver, listVars, batchVars, missing, otherFail,
                    job, ret, call >>

\* VideoFileClip(input_path) and the reads of duration, fps, size: MoviePy may
\* raise (an unreadable file); except Exception returns False.
JobOpen ==
    /\ pc = "job_open"
    /\ \E ok \in BOOLEAN :
         /\ trace' = Append(trace, "open")
         /\ IF ok
            THEN /\ pc' = "job_write"
                 /\ UNCHANGED << result, otherFail >>
            ELSE /\ Return("False")
                 /\ otherFail' = otherFail + 1
    /\ UNCHANGED << caseSensitive, driver, listVars, batchVars, missing,
                    job, ret, outBefore, outfile, call >>

\* What a failed write_videofile leaves at output_path: the job writes to the
\* path itself and removes nothing afterwards, so the content is what ffmpeg
\* left, untouched when it never opened the file, truncated otherwise.
AfterFailedWrite(before) == {before, "partial"}

\* The method chain and video_clip.write_videofile(output_path, ...); on
\* success close(), the size and speed report (os.path.getsize may raise
\* there) and return True.  Whatever is raised, except Exception returns False.
JobWrite ==
    /\ pc = "job_write"
    /\ call' = ServiceCall(job.method)
    /\ \E outcome \in {"ok", "write_raised", "report_raised"} :
         CASE outcome = "ok" ->
                /\ trace' = Append(trace, "transcode")
                /\ outfile' = "new"
                /\ Return("True")
                /\ UNCHANGED otherFail
           [] outcome = "report_raised" ->
                /\ trace' = trace \o << "transcode", "report_raised" >>
                /\ outfile' = "new"
                /\ Return("False")
                /\ otherFail' = otherFail + 1
           [] OTHER ->
                /\ trace' = trace \o << "transcode", "raised" >>
                /\ outfile' \in AfterFailedWrite(outfile)
                /\ Return("False")
                /\ otherFail' = otherFail + 1
    /\ UNCHANGED << caseSensitive, driver, listVars, batchVars, missing,
                    job, ret, outBefore >>

\* ------------------------------------------- list_mov_files / discovery
\* get_unique_mov_files(folder_path) on folder d, glob yielding order q.
GetUniqueMovFiles(q) == Dedup(q)

\* list_mov_files: the discovery, then a listing that stats every file found;
\* file.stat() raises, uncaught, when a file found has gone meanwhile.
ListMovFiles(d, q) ==
    /\ dir' = d
    /\ glob_seq' = q
    /\ mov_files' = GetUniqueMovFiles(q)
AfterListing(found, statOk, next) ==
    IF found # <<>> /\ ~statOk THEN "crashed" ELSE next

\* The job has returned and its result has been used: its locals are gone.
JobGone ==
    /\ job' = NoJob
    /\ ret' = "none"
    /\ outBefore' = "absent"
    /\ outfile' = "absent"
    /\ trace' = <<>>
    /\ call' = NoCall
    /\ result' = "None"

\* A function of the menu loop has returned: nothing of it is kept.
BackToMenu ==
    /\ pc' = "menu"
    /\ dir' = {}
    /\ glob_seq' = <<>>
    /\ mov_files' = <<>>
    /\ method' = "none"
    /\ idx' = 0
    /\ success_count' = 0
    /\ started' = <<>>
    /\ missing' = 0
    /\ otherFail' = 0
    /\ job' = NoJob
    /\ ret' = "none"
    /\ outBefore' = "absent"
    /\ outfile' = "absent"
    /\ trace' = <<>>
    /\ call' = NoCall
    /\ result' = "None"
    /\ UNCHANGED << caseSensitive, driver >>

\* ----------------------------------------------- batch_convert_lossless
\* Variant: the loop is left at the first job that did not succeed.
AfterTallyBreakOnFailure(res) == IF res = "True" THEN "batch_loop" ELSE "batch_summary"

\* After the if/else that tallies a job, the for loop goes on to the next
\* file whatever the job returned.
AfterTally(res) == "batch_loop"
\* if convert_mov_to_mp4_lossless(...): success_count += 1
Tally(res, n) == IF res = "True" THEN n + 1 ELSE n

\* Choice 2 of the menu and batch_convert_lossless up to its confirmation
\* prompt: the method menu, the listing; nothing found returns.
BatchList ==
    /\ pc = "menu"
    /\ \E d \in Directories(caseSensitive), c \in MethodChoices :
         \E q \in Orders(GlobWithFallback(d, caseSensitive)) :
           /\ ListMovFiles(d, q)
           /\ method' = MethodMapBatch(c)
           /\ \E statOk \in BOOLEAN :
                pc' = AfterListing(GetUniqueMovFiles(q), statOk,
                                   IF GetUniqueMovFiles(q) = <<>> THEN "batch_none"
                                                                  ELSE "batch_confirm")
    /\ idx' = 0
    /\ success_count' = 0
    /\ started' = <<>>
    /\ missing' = 0
    /\ otherFail' = 0
    /\ UNCHANGED << caseSensitive, driver, jobVars >>

\* "Continue? (y/n)": anything but 'y' returns; success_count = 0 and the
\* loop starts otherwise.
BatchConfirm ==
    /\ pc = "batch_confirm"
    /\ \E typed \in Responses :
         pc' = IF LowerResp(typed) # "y" THEN "batch_cancelled" ELSE "batch_loop"
    /\ idx' = 1
    /\ success_count' = 0
    /\ dir' = {}
    /\ glob_seq' = <<>>
    /\ UNCHANGED << caseSensitive, driver, mov_files, method,
                    started, missing, otherFail, jobVars >>

\* for i, mov_file in enumerate(mov_files, 1): the next file's job is called
\* with output_folder / stem.mp4; after the last one comes the summary.
BatchNext ==
    /\ pc = "batch_loop"
    /\ IF idx <= Len(mov_files)
       THEN /\ StartJob(mov_files[idx], WithSuffixMp4(mov_files[idx]), method, FALSE,
                        "batch_tally")
            /\ started' = Append(started, mov_files[idx])
       ELSE /\ pc' = "batch_summary"
            /\ UNCHANGED << started, jobVars >>
    /\ UNCHANGED << caseSensitive, driver, listVars, mov_files, method,
                    idx, success_count, missing, otherFail >>

\* The job has returned into the loop body.
BatchTally ==
    /\ pc = "batch_tally"
    /\ success_count' = Tally(result, success_count)
    /\ idx' = idx + 1
    /\ pc' = AfterTally(result)
    /\ JobGone
    /\ UNCHANGED << caseSensitive, driver, listVars, mov_files, method,
                    started, missing, otherFail >>

\* The summary is printed and batch_convert_lossless returns; its locals are
\* gone and main's while loop is back at the menu.
BatchSummary ==
    /\ pc = "batch_summary"
    /\ BackToMenu

\* ------------------------------------------ main of convert_mov_to_mp4.py
\* The menu loop.  A choice outside 1-4, or an empty path, prints a message
\* and shows the menu again: the state is unchanged.
\* Choice 1: one file, the method menu, the job with output_path left unset.
MainSingle ==
    /\ pc = "menu"
    /\ \E inp \in Names, c \in MethodChoices :
         /\ method' = MethodMapSingle(c)
         /\ StartJob(inp, NonePath, MethodMapSingle(c), FALSE, "single_done")
    /\ mov_files' = <<>>
    /\ started' = <<>>
    /\ idx' = 0
    /\ success_count' = 0
    /\ missing' = 0
    /\ otherFail' = 0
    /\ UNCHANGED << caseSensitive, driver, listVars >>

\* Choice 3: list the MOV files of a folder.
MainList ==
    /\ pc = "menu"
    /\ \E d \in Directories(caseSensitive) :
         \E q \in Orders(GlobWithFallback(d, caseSensitive)), statOk \in BOOLEAN :
            /\ ListMovFiles(d, q)
            /\ pc' = AfterListing(GetUniqueMovFiles(q), statOk, "list_done")
    /\ UNCHANGED << caseSensitive, driver, method, idx, success_count,
                    started, missing, otherFail, jobVars >>

\* while True: the chosen operation has returned (its result is not kept) and
\* the menu is shown again.
MainLoop ==
    /\ pc \in {"single_done", "list_done", "batch_none", "batch_cancelled"}
    /\ BackToMenu

\* Choice 4: break.
MainExit ==
    /\ pc = "menu"
    /\ pc' = "done"
    /\ UNCHANGED << caseSensitive, driver, listVars, batchVars, missing, otherFail,
                    jobVars >>

\* ------------------------------------------------ main of convert_batch.py
\* One action for the whole function; pc is its position.  fl_check: the
\* existence loop and the early return; fl_loop: the for loop's call of the
\* job with method='high_quality', remove_audio=True; fl_tally: the if/else
\* after the call; fl_summary: the report.
FixedListMain ==
    /\ driver = "fixed_list"
    /\ CASE pc = "fl_check" ->
              /\ \E missing_files \in SUBSET (1..Len(FilesToConvert)) :
                   /\ missing' = Cardinality(missing_files)
                   /\ pc' = IF missing_files # {} THEN "fl_return" ELSE "fl_loop"
              /\ mov_files' = FilesToConvert
              /\ method' = "high_quality"
              /\ idx' = 1
              /\ success_count' = 0
              /\ UNCHANGED << started, otherFail, jobVars >>
         [] pc = "fl_loop" ->
              /\ IF idx <= Len(FilesToConvert)
                 THEN /\ StartJob(FilesToConvert[idx], WithSuffixMp4(FilesToConvert[idx]),
                                  "high_quality", TRUE, "fl_tally")
                      /\ started' = Append(started, FilesToConvert[idx])
                 ELSE /\ pc' = "fl_summary"
                      /\ UNCHANGED << started, jobVars >>
              /\ UNCHANGED << mov_files, method, idx, success_count,
                              missing, otherFail >>
         [] pc = "fl_tally" ->
              /\ success_count' = Tally(result, success_count)
              /\ idx' = idx + 1
              /\ pc' = "fl_loop"
              /\ JobGone
              /\ UNCHANGED << mov_files, method, started, missing, otherFail >>
         [] pc = "fl_summary" ->
              /\ pc' = "done"
              /\ UNCHANGED << batchVars, missing, otherFail, jobVars >>
         [] OTHER -> FALSE
    /\ UNCHANGED << caseSensitive, listVars >>
    /\ UNCHANGED driver

\* ------------------------------------------- the job called as a function
\* convert_batch imports convert_mov_to_mp4_lossless: any caller may pass any
\* method string, with or without an output path.
ApiCall ==
    /\ pc = "api"
    /\ \E inp \in Names, m \in Methods, given \in BOOLEAN :
         StartJob(inp, IF given THEN WithSuffixMp4(inp) ELSE NonePath, m, FALSE, "api_done")
    /\ method' = "none"
    /\ UNCHANGED << caseSensitive, driver, listVars, mov_files, idx,
                    success_count, started, missing, otherFail >>

Next ==
    \/ JobCheckInput
    \/ JobCheckOutput
    \/ JobOpen
    \/ JobWrite
    \/ BatchList
    \/ BatchConfirm
    \/ BatchNext
    \/ BatchTally
    \/ BatchSummary
    \/ MainSingle
    \/ MainList
    \/ MainLoop
    \/ MainExit
    \/ FixedListMain
    \/ ApiCall

Spec == Init /\ [][Next]_vars

\* ================================================================ claims
JobPcs == {"job_input", "job_output", "job_open", "job_write"}
Count(q, e) == Cardinality({i \in 1..Len(q) : q[i] = e})
Pos(q, e) == IF e \in Range(q) THEN CHOOSE i \in 1..Len(q) : q[i] = e ELSE 0
Last(q) == IF q = <<>> THEN "none" ELSE q[Len(q)]

\* batch_convert_lossless is past its confirmation prompt.
FolderBatchRunning ==
    /\ driver = "interactive"
    /\ \/ pc \in {"batch_loop", "batch_tally", "batch_summary"}
       \/ pc \in JobPcs /\ ret = "batch_tally"

\* A batch driver has ended: its summary, its early return, or a traceback.
BatchEnded ==
    \/ pc \in {"batch_summary", "fl_summary", "fl_return"}
    \/ pc = "crashed" /\ ret \in {"batch_tally", "fl_tally"}

\* get_unique_mov_files has just returned.
Listed == pc \in {"list_done", "batch_none", "batch_confirm"}

\* ---------------------------------------------------------------- C1
CalledInOrder ==
    FolderBatchRunning =>
        /\ Len(started) <= Len(mov_files)
        /\ started = SubSeq(mov_files, 1, Len(started))
        /\ Len(started) = (IF pc \in {"batch_loop", "batch_summary"} THEN idx - 1 ELSE idx)
        /\ (pc = "batch_summary" => started = mov_files)

\* Statements between the running batch and its summary: those of the jobs
\* not yet tallied, and the position within the running one.
StepsLeft ==
    (Len(mov_files) + 1 - idx) * 7 +
        (CASE pc = "batch_loop" -> 6
           [] pc = "job_input" -> 5
           [] pc = "job_output" -> 4
           [] pc = "job_open" -> 3
           [] pc = "job_write" -> 2
           [] pc = "batch_tally" -> 1
           [] OTHER -> 0)

\* The running batch is never left without a statement to run,
BatchNotStuck == (FolderBatchRunning /\ pc # "batch_summary") => ENABLED Next

\* and every step it takes stays in the batch and brings the summary nearer.
BatchAdvances ==
    (FolderBatchRunning /\ pc # "batch_summary") =>
        /\ FolderBatchRunning'
        /\ StepsLeft' < StepsLeft

\* C1: once the operator has confirmed the folder batch, the jobs are called
\* one per discovered file, each once and in list order, whatever each job
\* returns (input missing, overwrite declined, MoviePy raising, success);
\* no job's outcome takes the program out of the loop, every step brings the
\* final summary nearer, and the summary is reached with every file's job
\* called.
C1_EveryJobCalledInOrder ==
    /\ [](CalledInOrder /\ BatchNotStuck)
    /\ [][BatchAdvances]_vars

\* A two-file batch at its summary in which the first job failed.
C1_Witness ==
    /\ pc = "batch_summary"
    /\ Len(started) >= 2
    /\ started = mov_files
    /\ success_count = 0
    /\ missing + otherFail = Len(mov_files)

\* ---------------------------------------------------------------- C2
\* C2: success_count never exceeds the number of jobs, and a batch driver
\* (batch_convert_lossless or convert_batch.main) that has ended, with K
\* inputs missing and nothing else failing, has called all N jobs and
\* counts N - K successes.
C2_SummaryCountsMissingInputs ==
    /\ success_count <= Len(mov_files)
    /\ (BatchEnded /\ otherFail = 0) =>
          /\ Len(started) = Len(mov_files)
          /\ success_count = Len(mov_files) - missing

\* ---------------------------------------------------------------- C3
\* C3: with its three files present, convert_batch.main calls one job per
\* listed file, in order, with method high_quality and audio removed; the
\* job function accepts the call, each outcome is tallied, and the summary
\* is reached after three jobs.
C3_FixedListRunsThreeJobs ==
    (driver = "fixed_list" /\ pc # "fl_check" /\ missing = 0) =>
        /\ pc # "crashed"
        /\ result # "TypeError"
        /\ started = SubSeq(FilesToConvert, 1, Len(started))
        /\ (pc \in {"fl_summary", "done"} => started = FilesToConvert)

\* ---------------------------------------------------------------- C4
\* The four defined modes; "standard_high" is the identifier the menu passes
\* for the Standard mode.
DocumentedModes == {"copy_streams", "high_quality", "lossless", "standard", "standard_high"}
BranchedMethods == {"copy_streams", "high_quality", "lossless"}

\* C4 as claimed: a job called with a mode identifier outside the four
\* defined modes hands the transcoding service exactly the HighQuality
\* parameter set (CRF 15, libx264, aac).
C4_UnknownModeIsHighQuality ==
    (call # NoCall /\ call.method \notin DocumentedModes) =>
        /\ call.ffmpeg_params =
              [preset |-> "slow", crf |-> "15", threads |-> "cpu_count",
               movflags |-> "+faststart", pix_fmt |-> "yuv420p", cv |-> "none",
               ca |-> "none"]
        /\ call.codec = "libx264"
        /\ call.audio_codec = "aac"

\* C4 as amended: a job called with any method other than lossless,
\* high_quality and copy_streams does not raise on it and hands the service
\* the CRF-18 set (preset slow, no pix_fmt) with libx264 and aac; CRF 15 is
\* used for high_quality only, which is what the menus of main substitute
\* for a menu choice they do not list.
C4_UnknownMethodIsCrf18 ==
    /\ (call # NoCall /\ call.method \notin BranchedMethods) =>
          /\ call.ffmpeg_params.crf = "18"
          /\ call.ffmpeg_params.preset = "slow"
          /\ call.ffmpeg_params.pix_fmt = "none"
          /\ call.codec = "libx264"
          /\ call.audio_codec = "aac"
    /\ (call # NoCall /\ call.ffmpeg_params.crf = "15") => call.method = "high_quality"
    /\ (call # NoCall /\ call.method = "high_quality") => call.ffmpeg_params.crf = "15"
    /\ \A c \in MethodChoices :
          /\ OrDefault(c) \notin {"1", "2", "3", "4"} => MethodMapSingle(c) = "high_quality"
          /\ OrDefault(c) \notin {"1", "2", "3"} => MethodMapBatch(c) = "high_quality"

\* A job called with an unlisted method string has reached the service.
C4_Witness ==
    /\ call # NoCall
    /\ call.method = "bogus"
    /\ call.ffmpeg_params.crf = "18"
    /\ result = "True"

\* ---------------------------------------------------------------- C5
AudioAbsent(c) == c.audio_codec = "None" /\ c.ffmpeg_params.ca = "none"

\* C5: a job requested with audio disabled is carried out, and the
\* parameters a job hands the transcoding service name no audio codec
\* exactly when the job was requested with audio disabled.
C5_AudioAbsentIffDisabled ==
    /\ (job # NoJob /\ job.remove_audio) => result # "TypeError"
    /\ (call # NoCall) => (AudioAbsent(call) <=> job.remove_audio)

\* ---------------------------------------------------------------- C6
\* C6: discovery returns every entry of the folder whose extension is .mov
\* in any spelling, on either kind of file system; the '*.MOV' glob is the
\* one used when '*.mov' finds nothing; a folder without matches gives an
\* empty list.
C6_DiscoveryComplete ==
    Listed =>
        /\ \A n \in dir : LowerExt(n.ext) = "mov" => n \in Range(mov_files)
        /\ (Glob(dir, caseSensitive, "mov") = {} =>
               Range(glob_seq) = Glob(dir, caseSensitive, "MOV"))
        /\ (dir = {} => mov_files = <<>>)

\* ---------------------------------------------------------------- C7
\* C7: no two returned entries share a lower-cased resolved path, the entry
\* kept for a key is the first one glob yielded with it, and every physical
\* file glob matched is still among the returned entries.
C7_DiscoveryUnique ==
    Listed =>
        /\ \A i, j \in 1..Len(mov_files) :
              PathKey(mov_files[i]) = PathKey(mov_files[j]) => i = j
        /\ \A i \in 1..Len(mov_files) :
              \E k \in 1..Len(glob_seq) :
                 /\ glob_seq[k] = mov_files[i]
                 /\ \A l \in 1..(k - 1) : PathKey(glob_seq[l]) # PathKey(glob_seq[k])
        /\ Range(glob_seq) \subseteq Range(mov_files)

\* ---------------------------------------------------------------- C8
Declined == Last(trace) = "answer_other"

\* C8: when the output exists and the operator answers anything but 'y',
\* the job ends there: write_videofile is not called, the file at the output
\* path is what it was, the job returns True, and the folder batch counts
\* the job as a success (every job that neither missed its input nor failed
\* is in success_count).
C8_DeclineIsNonFailingSkip ==
    /\ Declined =>
          /\ outBefore # "absent"
          /\ call = NoCall
          /\ Count(trace, "transcode") = 0
          /\ outfile = outBefore
          /\ pc \notin JobPcs
          /\ result = "True"
    /\ (pc = "batch_tally" /\ Declined) => Tally(result, success_count) = success_count + 1
    /\ (driver = "interactive" /\ pc \in {"batch_loop", "batch_summary"}) =>
          success_count = (idx - 1) - missing - otherFail

\* The second job of a folder batch has returned from a declined overwrite
\* prompt, the first having been counted.
C8_Witness ==
    /\ pc = "batch_tally"
    /\ Declined
    /\ outfile = "old"
    /\ result = "True"
    /\ idx = 2
    /\ success_count = 1

\* ---------------------------------------------------------------- C9
\* C9: when write_videofile raises, the job returns False and the output
\* path holds what it held when the job was called: nothing if nothing was
\* there, the previous file if one was.
C9_NoPartialOutputAfterFailure ==
    Last(trace) = "raised" =>
        /\ result = "False"
        /\ outfile = outBefore

\* --------------------------------------------------------------- C10
\* C10: in a job the input check comes first, the output check second and
\* the transcoding call after both; a job whose input is missing returns
\* False having done nothing else (no prompt, no open, no call); the service
\* is called at most once, and only with the input found and the output
\* either free or the overwrite answered with 'y'.
C10_JobStepOrder ==
    /\ Count(trace, "transcode") <= 1
    /\ (call # NoCall) <=> ("transcode" \in Range(trace))
    /\ "input_missing" \in Range(trace) =>
          /\ trace = << "input_missing" >>
          /\ result = "False"
          /\ pc \notin JobPcs
          /\ call = NoCall
          /\ outfile = outBefore
    /\ \A e \in {"output_exists", "output_free"} :
          e \in Range(trace) => Pos(trace, "input_exists") = 1 /\ Pos(trace, e) = 2
    /\ \A e \in {"answer_y", "answer_other"} :
          e \in Range(trace) => Pos(trace, "output_exists") = 2 /\ Pos(trace, e) = 3
    /\ (pc = "job_write" \/ "transcode" \in Range(trace)) =>
          /\ Pos(trace, "input_exists") = 1
          /\ \/ Pos(trace, "output_free") = 2
             \/ Pos(trace, "output_exists") = 2 /\ Pos(trace, "answer_y") = 3
          /\ "answer_other" \notin Range(trace)
    /\ "transcode" \in Range(trace) =>
          /\ Pos(trace, "transcode") > Pos(trace, "open")
          /\ Pos(trace, "open") > 2

\* A job that overwrote an existing output after the operator answered 'y'.
C10_Witness ==
    /\ trace = << "input_exists", "output_exists", "answer_y", "open", "transcode" >>
    /\ result = "True"
    /\ outfile = "new"

=============================================================================
